---- MODULE Spec2Model ----
(***************************************************************************)
(* Model of the text-to-SQL pipeline of main.js: getCurrentIST,            *)
(* extractFinalQuery, isSafeSelect and the orchestrator main().            *)
(* Strings are sequences of one-character strings, so that trim,           *)
(* toLowerCase, split, startsWith, endsWith and the regular-expression     *)
(* tests are computed character by character as the JavaScript does.       *)
(***************************************************************************)
EXTENDS Integers, Sequences, FiniteSets, TLC

VARIABLES
  pc,               \* position of main(): which await it is suspended at
  now,              \* system clock, minutes since the epoch (new Date().getTime())
  tzOffset,         \* host timezone: Date.prototype.getTimezoneOffset(), minutes
  istString,        \* getCurrentIST().istString, as its civil fields
  year,             \* getCurrentIST().year
  sqlResponse,      \* main.js:207 text returned by the generation call
  sqlResponseFinal, \* main.js:214 result of extractFinalQuery
  verdict,          \* main.js:216 what isSafeSelect returned in this request
  dbQueryAnswer,    \* main.js:218-226 what dbInstance.run resolved with, possibly re-encoded
  calls,            \* external calls made so far, in order
  answer,           \* value main() resolved with
  thrown            \* TRUE when an exception escaped main()

vars == <<pc, now, tzOffset, istString, year, sqlResponse, sqlResponseFinal,
          verdict, dbQueryAnswer, calls, answer, thrown>>

\* a variable the program has not assigned yet
Unset == [unset |-> TRUE]
NoAnswer == [kind |-> "none", text |-> <<>>]
NoDbAnswer == [kind |-> "unset", rows |-> 0]

(***************************************************************************)
(* Bounds                                                                  *)
(***************************************************************************)
\* longest model response, counted in tokens of Tokens
MaxTokens == 4
\* largest number of rows the database returns
MaxRows == 2
\* number of half-hour steps of the system clock on each side of the new year
ClockSteps == 12

(***************************************************************************)
(* JavaScript strings                                                      *)
(***************************************************************************)
UpperCase == <<"A","B","C","D","E","F","G","H","I","J","K","L","M",
               "N","O","P","Q","R","S","T","U","V","W","X","Y","Z">>
LowerCase == <<"a","b","c","d","e","f","g","h","i","j","k","l","m",
               "n","o","p","q","r","s","t","u","v","w","x","y","z">>

WhiteSpace == {" ", "\n", "\t"}

toLowerChar(c) ==
  IF \E i \in 1..Len(UpperCase) : UpperCase[i] = c
  THEN LowerCase[CHOOSE i \in 1..Len(UpperCase) : UpperCase[i] = c]
  ELSE c

\* String.prototype.toLowerCase
toLowerCase(s) == [i \in 1..Len(s) |-> toLowerChar(s[i])]

\* String.prototype.trim
RECURSIVE trimStart(_)
trimStart(s) ==
  IF s # <<>> /\ Head(s) \in WhiteSpace THEN trimStart(Tail(s)) ELSE s

RECURSIVE trimEnd(_)
trimEnd(s) ==
  IF s # <<>> /\ s[Len(s)] \in WhiteSpace
  THEN trimEnd(SubSeq(s, 1, Len(s) - 1)) ELSE s

trim(s) == trimEnd(trimStart(s))

\* String.prototype.startsWith
startsWith(s, p) == Len(s) >= Len(p) /\ SubSeq(s, 1, Len(p)) = p

\* String.prototype.endsWith
endsWith(s, p) ==
  Len(s) >= Len(p) /\ SubSeq(s, Len(s) - Len(p) + 1, Len(s)) = p

\* s has w as a substring: RegExp.prototype.test for a literal pattern
includes(s, w) ==
  \E i \in 1..(Len(s) - Len(w) + 1) : SubSeq(s, i, i + Len(w) - 1) = w

\* String.prototype.split on a one-character separator
RECURSIVE splitFrom(_, _, _)
splitFrom(s, sep, cur) ==
  IF s = <<>> THEN <<cur>>
  ELSE IF Head(s) = sep THEN <<cur>> \o splitFrom(Tail(s), sep, <<>>)
  ELSE splitFrom(Tail(s), sep, Append(cur, Head(s)))

split(s, sep) == splitFrom(s, sep, <<>>)

\* Array.prototype.filter(query => query.length > 0)
RECURSIVE filterNonEmpty(_)
filterNonEmpty(a) ==
  IF a = <<>> THEN <<>>
  ELSE IF Len(Head(a)) > 0 THEN <<Head(a)>> \o filterNonEmpty(Tail(a))
  ELSE filterNonEmpty(Tail(a))

\* concatenation of an array of strings
RECURSIVE concat(_)
concat(a) == IF a = <<>> THEN <<>> ELSE Head(a) \o concat(Tail(a))

\* String(undefined), what undefined + ';' starts with
undefinedText == <<"u","n","d","e","f","i","n","e","d">>

(***************************************************************************)
(* extractFinalQuery, main.js:181-187                                      *)
(***************************************************************************)
\* variant: the whole trimmed response is kept, not its last segment
extractFinalQuery_WholeResponse(response) == trim(response) \o <<";">>

extractFinalQuery(response) ==
  LET parts   == split(response, ";")
      queries == filterNonEmpty([i \in 1..Len(parts) |-> trim(parts[i])])
  IN  IF Len(queries) = 0
      THEN undefinedText \o <<";">>
      ELSE queries[Len(queries)] \o <<";">>

(***************************************************************************)
(* isSafeSelect, main.js:160-174                                           *)
(***************************************************************************)
selectText == <<"s","e","l","e","c","t">>

\* the alternatives of the regular expression of main.js:171-172
forbidden ==
  { <<"i","n","s","e","r","t">>,
    <<"u","p","d","a","t","e">>,
    <<"d","e","l","e","t","e">>,
    <<"d","r","o","p">>,
    <<"a","l","t","e","r">>,
    <<"t","r","u","n","c","a","t","e">>,
    <<"c","r","e","a","t","e">>,
    <<"g","r","a","n","t">>,
    <<"-","-">>,
    <<"/","*">> }

forbiddenTest(s) == \E w \in forbidden : includes(s, w)

\* variant: the forbidden words are looked for in the text as written
isSafeSelect_CaseSensitive(sql) ==
  LET sqlString      == toLowerCase(trim(sql))
      semicolonMatch == includes(sqlString, <<";">>)
  IN  IF ~startsWith(sqlString, selectText) THEN FALSE
      ELSE IF semicolonMatch /\ ~endsWith(sqlString, <<";">>) THEN FALSE
      ELSE ~forbiddenTest(trim(sql))

isSafeSelect(sql) ==
  LET sqlString      == toLowerCase(trim(sql))
      semicolonMatch == includes(sqlString, <<";">>)
  IN  IF ~startsWith(sqlString, selectText) THEN FALSE
      ELSE IF semicolonMatch /\ ~endsWith(sqlString, <<";">>) THEN FALSE
      ELSE ~forbiddenTest(sqlString)

(***************************************************************************)
(* Date: instants are whole minutes since the epoch.  Every offset the     *)
(* code adds is a whole number of minutes, so the seconds and milliseconds *)
(* of the clock pass through unchanged and are left out.                   *)
(***************************************************************************)
\* the calendar date of a day number, as Date's UTC accessors compute it
civilFromDays(z) ==
  LET zz   == z + 719468
      era  == zz \div 146097
      doe  == zz - era * 146097
      yoe  == (doe - doe \div 1460 + doe \div 36524 - doe \div 146096) \div 365
      doy  == doe - (365 * yoe + yoe \div 4 - yoe \div 100)
      mp   == (5 * doy + 2) \div 153
      d    == doy - (153 * mp + 2) \div 5 + 1
      m    == IF mp < 10 THEN mp + 3 ELSE mp - 9
      y    == yoe + era * 400 + (IF m <= 2 THEN 1 ELSE 0)
  IN  [year |-> y, month |-> m, day |-> d]

\* Date.prototype.toISOString().replace("T", " ").slice(0, 19): the UTC fields
toISOString(t) ==
  LET date == civilFromDays(t \div 1440)
      mod  == t % 1440
  IN  [year |-> date.year, month |-> date.month, day |-> date.day,
       hour |-> mod \div 60, minute |-> mod % 60]

\* Date.prototype.getFullYear(): the year of the instant in the host's zone,
\* whose local time is UTC minus getTimezoneOffset()
getFullYear(t, hostOffset) == civilFromDays((t - hostOffset) \div 1440).year

\* 5.5 * 60 * 60 * 1000 ms, in minutes
istOffsetMs == 330

getCurrentIST(clock, hostOffset) ==
  LET nowUtc  == clock + hostOffset
      istDate == nowUtc + istOffsetMs
  IN  [istString |-> toISOString(istDate),
       year      |-> getFullYear(istDate, hostOffset)]

(***************************************************************************)
(* Inputs                                                                  *)
(***************************************************************************)
\* 2026-01-01T00:00Z
NewYear == 20454 * 1440

Clocks == { NewYear + 30 * k : k \in (0 - ClockSteps)..ClockSteps }

\* getTimezoneOffset() of Asia/Kolkata, UTC, America/New_York,
\* Asia/Tokyo and America/Los_Angeles (standard time)
TzOffsets == { 0 - 330, 0, 300, 0 - 540, 480 }

\* the clocks and zones a request of the pipeline specification runs under
RequestClocks == { NewYear - 30 * ClockSteps, NewYear }
RequestTzOffsets == { 0 - 330, 0 }

deleteUpper == <<"D","E","L","E","T","E">>
selectUpper == <<"S","E","L","E","C","T">>

\* the pieces model responses are made of
Tokens == { selectText, selectUpper, deleteUpper, <<" ">>, <<"x">>, <<";">> }

RECURSIVE TokenSeqs(_, _)
TokenSeqs(T, n) ==
  IF n = 0 THEN { <<>> }
  ELSE LET shorter == TokenSeqs(T, n - 1)
       IN  shorter \cup { Append(q, t) : q \in shorter, t \in T }

\* every text the generation call can return
Responses == { concat(q) : q \in TokenSeqs(Tokens, MaxTokens) }

\* what dbInstance.run can resolve with: a falsy value, the JSON text of an
\* array of rows, the JSON text of something else, or text that is not JSON
DbResults ==
  { [kind |-> "falsy", rows |-> 0],
    [kind |-> "json_object", rows |-> 0],
    [kind |-> "not_json", rows |-> 0] }
  \cup { [kind |-> "json_array", rows |-> n] : n \in 0..MaxRows }

\* text the explanation call can return
Explanations == { "explanation" }

(***************************************************************************)
(* main(), main.js:195-244.  One action per await: the action makes the    *)
(* external call, takes one of its outcomes and runs the synchronous code  *)
(* up to the next await or return.                                         *)
(***************************************************************************)
RejectionAnswer ==
  [kind |-> "fixed",
   text |-> <<"Error: LLM Generated SQL query is not a safe SELECT statement.">>]

NoResultAnswer ==
  [kind |-> "fixed",
   text |-> <<"Error: Failed to execute SQL query on the database and fetch the results.">>]

\* the errors the collaborators reject with, by their message
Errors ==
  { "database set-up failed", "getTableInfo failed", "generation call failed",
    "query failed", "Unexpected token in JSON", "explanation call failed" }

\* the ValidationVerdict a return value of isSafeSelect stands for
verdictOf(safe) == IF safe THEN "Safe" ELSE "Unsafe"

\* return of a value from main()
return(value) == [pc |-> "Done", answer |-> value, thrown |-> FALSE]

\* variant: the error is thrown again, out of main()
catch_Rethrow(message) == [pc |-> "Done", answer |-> NoAnswer, thrown |-> TRUE]

\* main.js:241-243, the catch clause around the whole body
catch(message) ==
  return([kind |-> "caught",
          text |-> <<"Error occurred: Unable to process the request. ", message>>])

\* variant: the statement is run whatever the verdict
branchOnVerdict_Always(safe) ==
  [pc |-> "Validated", answer |-> NoAnswer, thrown |-> FALSE]

\* variant: an unsafe statement sends main() back to the generation call
branchOnVerdict_Retry(safe) ==
  IF safe THEN [pc |-> "Validated", answer |-> NoAnswer, thrown |-> FALSE]
  ELSE [pc |-> "SchemaLoaded", answer |-> NoAnswer, thrown |-> FALSE]

\* main.js:216 and 239-240: the branch on the verdict of isSafeSelect
branchOnVerdict(safe) ==
  IF safe THEN [pc |-> "Validated", answer |-> NoAnswer, thrown |-> FALSE]
  ELSE return(RejectionAnswer)

\* main.js:220-227: JSON.parse of the result and the re-encoding of several rows
\* (error = TRUE when JSON.parse throws)
frameDbAnswer(result) ==
  IF result.kind = "falsy" THEN [error |-> FALSE, value |-> result]
  ELSE IF result.kind = "not_json" THEN [error |-> TRUE, value |-> result]
  ELSE IF result.kind = "json_array" /\ result.rows > 1
       THEN [error |-> FALSE, value |-> [kind |-> "toon", rows |-> result.rows]]
  ELSE [error |-> FALSE, value |-> result]

\* variant: a falsy result makes main() run the statement again
branchOnDbAnswer_Retry(value) ==
  IF value.kind = "falsy"
  THEN [pc |-> "Validated", answer |-> NoAnswer, thrown |-> FALSE]
  ELSE [pc |-> "Executed", answer |-> NoAnswer, thrown |-> FALSE]

\* main.js:229-231: the test !dbQueryAnswer
branchOnDbAnswer(value) ==
  IF value.kind = "falsy" THEN return(NoResultAnswer)
  ELSE [pc |-> "Executed", answer |-> NoAnswer, thrown |-> FALSE]

\* the control state an action leaves main() in
goto(next) ==
  /\ pc' = next.pc
  /\ answer' = next.answer
  /\ thrown' = next.thrown

llmCalls == SelectSeq(calls, LAMBDA c : c.op = "llm")
dbCalls == SelectSeq(calls, LAMBDA c : c.op = "db")

Init ==
  /\ pc = "Start"
  /\ now \in RequestClocks
  /\ tzOffset \in RequestTzOffsets
  /\ istString = Unset
  /\ year = 0
  /\ sqlResponse = Unset
  /\ sqlResponseFinal = Unset
  /\ verdict = "none"
  /\ dbQueryAnswer = NoDbAnswer
  /\ calls = <<>>
  /\ answer = NoAnswer
  /\ thrown = FALSE

\* main.js:197-200 and 89-106
setUpDatabaseSource ==
  /\ pc = "Start"
  /\ \/ goto([pc |-> "DbReady", answer |-> NoAnswer, thrown |-> FALSE])
     \/ goto(catch("database set-up failed"))
  /\ UNCHANGED <<now, tzOffset, istString, year, sqlResponse, sqlResponseFinal,
                 verdict, dbQueryAnswer, calls>>

\* main.js:201 and 114-116
getSchema ==
  /\ pc = "DbReady"
  /\ \/ goto([pc |-> "SchemaLoaded", answer |-> NoAnswer, thrown |-> FALSE])
     \/ goto(catch("getTableInfo failed"))
  /\ UNCHANGED <<now, tzOffset, istString, year, sqlResponse, sqlResponseFinal,
                 verdict, dbQueryAnswer, calls>>

\* main.js:203-216 and 239-240
generateSQL ==
  /\ pc = "SchemaLoaded"
  /\ LET ist == getCurrentIST(now, tzOffset)
     IN  /\ istString' = ist.istString
         /\ year' = ist.year
         /\ calls' = Append(calls, [op |-> "llm", what |-> "generation",
                                    arg |-> ist])
  /\ \/ /\ goto(catch("generation call failed"))
        /\ UNCHANGED <<sqlResponse, sqlResponseFinal, verdict>>
     \/ \E response \in Responses :
          LET final == extractFinalQuery(response)
              safe  == isSafeSelect(final)
          IN  /\ sqlResponse' = response
              /\ sqlResponseFinal' = final
              /\ verdict' = verdictOf(safe)
              /\ goto(branchOnVerdict(safe))
  /\ UNCHANGED <<now, tzOffset, dbQueryAnswer>>

\* main.js:217-231
runQuery ==
  /\ pc = "Validated"
  /\ calls' = Append(calls, [op |-> "db", what |-> "run",
                             arg |-> sqlResponseFinal])
  /\ \/ /\ goto(catch("query failed"))
        /\ UNCHANGED dbQueryAnswer
     \/ \E result \in DbResults :
          LET framed == frameDbAnswer(result)
          IN  IF framed.error
              THEN /\ dbQueryAnswer' = result
                   /\ goto(catch("Unexpected token in JSON"))
              ELSE /\ dbQueryAnswer' = framed.value
                   /\ goto(branchOnDbAnswer(framed.value))
  /\ UNCHANGED <<now, tzOffset, istString, year, sqlResponse, sqlResponseFinal,
                 verdict>>

\* main.js:232-238 and 137-153
executeQueryAndFrameAnswer ==
  /\ pc = "Executed"
  /\ calls' = Append(calls, [op |-> "llm", what |-> "explanation",
                             arg |-> dbQueryAnswer])
  /\ \/ goto(catch("explanation call failed"))
     \/ \E finalAnswer \in Explanations :
          goto(return([kind |-> "explanation", text |-> <<finalAnswer>>]))
  /\ UNCHANGED <<now, tzOffset, istString, year, sqlResponse, sqlResponseFinal,
                 verdict, dbQueryAnswer>>

Next ==
  \/ setUpDatabaseSource
  \/ getSchema
  \/ generateSQL
  \/ runQuery
  \/ executeQueryAndFrameAnswer

Spec == Init /\ [][Next]_vars

(***************************************************************************)
(* getCurrentIST on its own: every clock of Clocks under every host zone   *)
(***************************************************************************)
InitIST ==
  /\ pc = "getCurrentIST"
  /\ now \in Clocks
  /\ tzOffset \in TzOffsets
  /\ istString = Unset
  /\ year = 0
  /\ sqlResponse = Unset
  /\ sqlResponseFinal = Unset
  /\ verdict = "none"
  /\ dbQueryAnswer = NoDbAnswer
  /\ calls = <<>>
  /\ answer = NoAnswer
  /\ thrown = FALSE

\* main.js:72-82
callGetCurrentIST ==
  /\ pc = "getCurrentIST"
  /\ LET ist == getCurrentIST(now, tzOffset)
     IN  /\ istString' = ist.istString
         /\ year' = ist.year
  /\ pc' = "getCurrentIST_returned"
  /\ UNCHANGED <<now, tzOffset, sqlResponse, sqlResponseFinal, verdict,
                 dbQueryAnswer, calls, answer, thrown>>

NextIST == callGetCurrentIST

SpecIST == InitIST /\ [][NextIST]_vars

(***************************************************************************)
(* isSafeSelect on its own, on statements that need not come from          *)
(* extractFinalQuery                                                       *)
(***************************************************************************)
\* longest middle part of a statement, counted in tokens of BodyTokens
MaxBody == 2

toUpperChar(c) ==
  IF \E i \in 1..Len(LowerCase) : LowerCase[i] = c
  THEN UpperCase[CHOOSE i \in 1..Len(LowerCase) : LowerCase[i] = c]
  ELSE c

toUpperCase(s) == [i \in 1..Len(s) |-> toUpperChar(s[i])]

BodyTokens ==
  forbidden \cup { toUpperCase(w) : w \in forbidden }
  \cup { <<"d","E","l","e","T","e">>, <<" ">>, <<"x">>, <<";">>, <<"-">> }

Statements ==
  { lead \o head \o concat(body) \o tail :
      lead \in { <<>>, <<" ">> },
      head \in { selectText, selectUpper, <<"x">> },
      body \in TokenSeqs(BodyTokens, MaxBody),
      tail \in { <<>>, <<";">> } }

InitValidator ==
  /\ pc = "isSafeSelect"
  /\ sqlResponseFinal \in Statements
  /\ verdict = "none"
  /\ now \in { NewYear }
  /\ tzOffset \in { 0 }
  /\ istString = Unset
  /\ year = 0
  /\ sqlResponse = Unset
  /\ dbQueryAnswer = NoDbAnswer
  /\ calls = <<>>
  /\ answer = NoAnswer
  /\ thrown = FALSE

\* main.js:160-174
callIsSafeSelect ==
  /\ pc = "isSafeSelect"
  /\ verdict' = verdictOf(isSafeSelect(sqlResponseFinal))
  /\ pc' = "isSafeSelect_returned"
  /\ UNCHANGED <<now, tzOffset, istString, year, sqlResponse, sqlResponseFinal,
                 dbQueryAnswer, calls, answer, thrown>>

NextValidator == callIsSafeSelect

SpecValidator == InitValidator /\ [][NextValidator]_vars

(***************************************************************************)
(* Properties                                                              *)
(***************************************************************************)
\* positions of s that hold a ";"
semicolonsOf(s) == { i \in 1..Len(s) : s[i] = ";" }

\* the response has no non-empty segment: only white space and ";"
isBlank(s) == \A i \in 1..Len(s) : s[i] \in WhiteSpace \cup {";"}

\* w occurs in s in some letter case
occursAnyCase(s, w) ==
  \E i \in 1..(Len(s) - Len(w) + 1) :
    \A j \in 1..Len(w) : toLowerChar(s[i + j - 1]) = w[j]

\* C1: every statement handed to dbInstance.run is the statement this request
\* validated, and isSafeSelect returned true for it
C1_RunOnlyAfterSafeVerdict ==
  \A i \in 1..Len(calls) :
    calls[i].op = "db" =>
      /\ verdict = "Safe"
      /\ calls[i].arg = sqlResponseFinal
      /\ isSafeSelect(calls[i].arg)

C1_Witness ==
  /\ Len(dbCalls) = 1
  /\ verdict = "Safe"
  /\ dbCalls[1].arg = sqlResponseFinal

\* C2: after an Unsafe verdict main() is done with the fixed rejection answer,
\* has made no database call and no language-model call but the generation one
C2_UnsafeGoesToDone ==
  verdict = "Unsafe" =>
    /\ pc = "Done"
    /\ answer = RejectionAnswer
    /\ ~thrown
    /\ Len(dbCalls) = 0
    /\ Len(llmCalls) = 1
    /\ llmCalls[1].what = "generation"

C2_Witness ==
  /\ verdict = "Unsafe"
  /\ pc = "Done"
  /\ sqlResponseFinal = deleteUpper \o <<" ", "x", ";">>
  /\ answer = RejectionAnswer

\* C3: every statement handed to dbInstance.run begins with select in some
\* letter case, ends with ";" and has no other ";"
C3_RunGetsOneSelectStatement ==
  \A i \in 1..Len(calls) :
    calls[i].op = "db" =>
      LET stmt == calls[i].arg
      IN  /\ occursAnyCase(SubSeq(stmt, 1, Len(selectText)), selectText)
          /\ semicolonsOf(stmt) = { Len(stmt) }

C3_Witness ==
  /\ Len(dbCalls) = 1
  /\ Cardinality(semicolonsOf(sqlResponse)) >= 2
  /\ startsWith(dbCalls[1].arg, selectUpper)

\* C4 (as claimed): a response with no non-empty segment makes the extraction
\* fail: no candidate statement, the answer of a caught error, no database call
C4_BlankResponseIsAnError ==
  (sqlResponse # Unset /\ isBlank(sqlResponse)) =>
    /\ sqlResponseFinal = Unset
    /\ verdict = "none"
    /\ pc = "Done"
    /\ answer.kind = "caught"
    /\ Len(dbCalls) = 0

\* the database returned no row: a falsy value or the JSON text of an empty array
isEmptyResult(value) ==
  \/ value.kind = "falsy"
  \/ value.kind = "json_array" /\ value.rows = 0

\* C5 (as claimed): after a run that returned an empty result main() is done
\* with the fixed "no result" answer and has made no explanation call
C5_EmptyResultSkipsExplanation ==
  (dbQueryAnswer # NoDbAnswer /\ isEmptyResult(dbQueryAnswer)) =>
    /\ pc = "Done"
    /\ answer = NoResultAnswer
    /\ Len(llmCalls) = 1

\* C6: no exception escapes main(); until it is done it has returned nothing
\* and can go on; when it is done it has returned one string, the explanation
\* or a diagnostic
C6_AlwaysOneAnswerString ==
  /\ ~thrown
  /\ pc # "Done" => (answer = NoAnswer /\ ENABLED Next)
  /\ pc = "Done" =>
       \/ answer.kind = "explanation" /\ answer.text[1] \in Explanations
       \/ answer \in { RejectionAnswer, NoResultAnswer }
       \/ /\ answer.kind = "caught"
          /\ answer.text[2] \in Errors

C6_Witness ==
  /\ pc = "Done"
  /\ answer.kind = "caught"
  /\ answer.text[2] = "Unexpected token in JSON"
  /\ ~thrown

\* C7: at most one database call and two language-model calls, no call made
\* twice; an explanation was returned after exactly generation, run, explanation
C7_CallsAtMostOnceInOrder ==
  /\ Len(dbCalls) <= 1
  /\ Len(llmCalls) <= 2
  /\ \A i, j \in 1..Len(calls) : calls[i].what = calls[j].what => i = j
  /\ (pc = "Done" /\ answer.kind = "explanation") =>
       [i \in 1..Len(calls) |-> calls[i].what]
         = <<"generation", "run", "explanation">>

C7_Witness ==
  /\ pc = "Done"
  /\ answer.kind = "explanation"
  /\ Len(llmCalls) = 2
  /\ Len(dbCalls) = 1

\* C8 (as claimed): istString is the clock's instant rendered at UTC+5:30,
\* whatever the host's timezone offset
C8_IstStringIsClockAtIST ==
  pc = "getCurrentIST_returned" => istString = toISOString(now + istOffsetMs)

\* C9: a statement in which a forbidden word or comment marker occurs, in any
\* letter case, is judged Unsafe
C9_ForbiddenWordIsUnsafe ==
  (pc = "isSafeSelect_returned"
   /\ \E w \in forbidden : occursAnyCase(sqlResponseFinal, w))
    => verdict = "Unsafe"

C9_Witness ==
  /\ pc = "isSafeSelect_returned"
  /\ sqlResponseFinal = selectText \o <<" ", "G","R","A","N","T", ";">>
  /\ verdict = "Unsafe"

\* C10 (as claimed): a statement with a ";" before the last character of its
\* trimmed text is judged Unsafe
C10_InnerSemicolonIsUnsafe ==
  (pc = "isSafeSelect_returned"
   /\ \E i \in semicolonsOf(trim(sqlResponseFinal)) :
        i < Len(trim(sqlResponseFinal)))
    => verdict = "Unsafe"

\* the characters a word is made of, among those of the model's alphabet
isWordChar(c) ==
  \E i \in 1..Len(LowerCase) : c = LowerCase[i] \/ c = UpperCase[i]

\* the leading token of a statement: the longest run of word characters its
\* trimmed text starts with
RECURSIVE wordPrefix(_)
wordPrefix(s) ==
  IF s # <<>> /\ isWordChar(Head(s))
  THEN <<Head(s)>> \o wordPrefix(Tail(s))
  ELSE <<>>

leadingToken(s) == wordPrefix(trim(s))

\* C11 (as claimed): a statement whose leading token, in lower case, is not
\* the word select is judged Unsafe; a longer word that starts with select is
\* another token
C11_OtherLeadingTokenIsUnsafe ==
  (pc = "isSafeSelect_returned"
   /\ toLowerCase(leadingToken(sqlResponseFinal)) # selectText)
    => verdict = "Unsafe"

(***************************************************************************)
(* extractFinalQuery on its own, on every response of Responses            *)
(***************************************************************************)
InitExtractor ==
  /\ pc = "extractFinalQuery"
  /\ sqlResponse \in Responses
  /\ sqlResponseFinal = Unset
  /\ verdict = "none"
  /\ now \in { NewYear }
  /\ tzOffset \in { 0 }
  /\ istString = Unset
  /\ year = 0
  /\ dbQueryAnswer = NoDbAnswer
  /\ calls = <<>>
  /\ answer = NoAnswer
  /\ thrown = FALSE

\* main.js:181-187
callExtractFinalQuery ==
  /\ pc = "extractFinalQuery"
  /\ sqlResponseFinal' = extractFinalQuery(sqlResponse)
  /\ pc' = "extractFinalQuery_returned"
  /\ UNCHANGED <<now, tzOffset, istString, year, sqlResponse, verdict,
                 dbQueryAnswer, calls, answer, thrown>>

NextExtractor == callExtractFinalQuery

SpecExtractor == InitExtractor /\ [][NextExtractor]_vars

\* text is the last non-empty trimmed segment of response: the trimmed text
\* between two neighbouring separators (or ends) after which only white space
\* and ";" follow
isLastNonEmptySegment(response, text) ==
  \E i \in 1..(Len(response) + 1) :
    \E j \in (i - 1)..Len(response) :
      /\ i = 1 \/ response[i - 1] = ";"
      /\ j = Len(response) \/ response[j + 1] = ";"
      /\ semicolonsOf(SubSeq(response, i, j)) = {}
      /\ trim(SubSeq(response, i, j)) # <<>>
      /\ isBlank(SubSeq(response, j + 1, Len(response)))
      /\ text = trim(SubSeq(response, i, j))

\* C12 (as claimed): for a response with a ";" the result is its last
\* non-empty trimmed segment and one ";"; for a response with no ";" it is the
\* whole trimmed response and one ";"
C12_LastSegmentPlusSemicolon ==
  pc = "extractFinalQuery_returned" =>
    /\ sqlResponseFinal # <<>>
    /\ sqlResponseFinal[Len(sqlResponseFinal)] = ";"
    /\ LET text == SubSeq(sqlResponseFinal, 1, Len(sqlResponseFinal) - 1)
       IN  IF semicolonsOf(sqlResponse) = {}
           THEN text = trim(sqlResponse)
           ELSE isLastNonEmptySegment(sqlResponse, text)

\* side check: the same statement, for the responses that have a non-empty segment
C12_NonBlankCheck ==
  (pc = "extractFinalQuery_returned" /\ ~isBlank(sqlResponse)) =>
    C12_LastSegmentPlusSemicolon

\* C13 (as claimed): the year getCurrentIST returns is the year its istString
\* starts with, for every clock and every host timezone offset
C13_YearIsYearOfIstString ==
  pc = "getCurrentIST_returned" => year = istString.year

====
